---- MODULE Spec2Model ----
(***************************************************************************)
(* Trend-strength extraction, incremental merge and pivot engine of the    *)
(* PDF trend analyzer, in its three programs:                              *)
(*   "desktop"  src/app.py                 (Tk GUI / CLI, pivot file)      *)
(*   "lite"     src/streamlit_app.py       (web, session store + CSV)      *)
(*   "full"     src/streamlit_app_full.py  (web, session store + CSV)      *)
(*                                                                         *)
(* Text is modelled at the level of what the regular expressions return:   *)
(* a character is a short string naming it (CJK ones in pinyin), a name   *)
(* is a sequence of characters, a numeric string is its sign, integer      *)
(* digits and fraction digits.  Floats are held exactly, in tenths.  A     *)
(* date string "YYYY-MM-DD" is the triple <<Y, M, D>> of its numbers.      *)
(***************************************************************************)
EXTENDS Integers, Sequences, FiniteSets, TLC

VARIABLES
    app,              \* which program runs
    pdf,              \* SpecExtract: the document handed to analyze_pdf_trend_strength
    trend_data,       \* SpecExtract: the list analyze_pdf_trend_strength returned
    pc,               \* SpecExtract: "start" before the call, "done" after it
    session,          \* web: 'historical_data' in st.session_state
    historical_data,  \* web: st.session_state.historical_data (list of records)
    csv_file,         \* web: data/trend_strength_data.csv, <<>> absent, <<rows>> present
    uploaded_files,   \* web: the files held by the st.file_uploader widget
    all_trend_data,   \* the records the last analysis gathered from its batch
    prev_data,        \* the store as it was when the last handler began
    last_op,          \* the handler that ran last
    reingest,         \* the last handler analysed the files the handler before it analysed
    pivot_file,       \* desktop: trend_strength_pivot.csv, <<>> absent, <<matrix>> present
    deleted_date,     \* lite: <<d>> when the last handler deleted date d, else <<>>
    faults,           \* web: script runs so far in which file access raised
    load_error,       \* web: the last script run caught an exception of read_csv
    pivot_df,         \* SpecPivot: <<>>, or <<the matrix the program shows or writes>>
    batch_pos,        \* SpecBatch: number of files of the batch the loop has handled
    failed_count,     \* SpecBatch: files of the batch that gave no records
    extract_button,   \* desktop GUI: state of the start button, "normal" or "disabled"
    progress,         \* desktop GUI: the progress bar is running
    threads,          \* desktop GUI: the arguments of the worker threads inside run_extraction
    after_queue,      \* desktop GUI: callbacks handed to root.after, not yet run
    started           \* desktop GUI: runs started so far

vars == <<app, pdf, trend_data, pc, session, historical_data, csv_file,
          uploaded_files, all_trend_data, prev_data, last_op, reingest, pivot_file,
          deleted_date, faults, load_error, pivot_df, batch_pos, failed_count,
          extract_button, progress, threads, after_queue, started>>

\* the state of the desktop window
gui == <<extract_button, progress, threads, after_queue, started>>

\* the window as PDFTextExtractorGUI.setup_ui leaves it
GuiIdle ==
    /\ extract_button = "normal"
    /\ progress = FALSE
    /\ threads = <<>>
    /\ after_queue = <<>>
    /\ started = 0

-----------------------------------------------------------------------------
(* Bounds of the model *)

\* primary-pattern matches in one drawn document
MaxMatches == 2
\* name/number pairs in one category of the fallback section
MaxEntries == 2
\* files in the uploader / PDF files in a batch directory
MaxBatch == 2
\* script runs of one behaviour in which reading or writing the CSV file raises
MaxFaults == 1
\* runs the user starts in the desktop window
MaxRuns == 2

-----------------------------------------------------------------------------
(* Generic helpers *)

Range(s) == {s[i] : i \in 1..Len(s)}

SeqsUpTo(S, n) == UNION {[1..k -> S] : k \in 0..n}

RECURSIVE Concat(_)
Concat(ss) == IF ss = <<>> THEN <<>> ELSE Head(ss) \o Concat(Tail(ss))

\* python: sub in s
Contains(sub, s) ==
    \E i \in 1..(Len(s) - Len(sub) + 1) : SubSeq(s, i, i + Len(sub) - 1) = sub

\* python: s.endswith(suf)
EndsWith(s, suf) ==
    /\ Len(s) >= Len(suf)
    /\ SubSeq(s, Len(s) - Len(suf) + 1, Len(s)) = suf

-----------------------------------------------------------------------------
(* Characters.  The sets list the characters the model draws from, grouped *)
(* by the regular-expression class they fall in.                           *)

\* U+4E00..U+9FA5, the CJK range of the primary pattern (named in pinyin)
CJKPrimary == {"tong", "lv", "xin", "qu", "shi", "qiang", "du", "zhu", "shi4", "dong", "guan",
               "da", "fu", "gong", "si", "you", "xian", "ji", "tuan"}
\* U+9FA6..U+9FFF, inside the fallback's [\u4e00-\u9fff] only
CJKExtra == {"u9fc0"}
AsciiLetters == {"A"}
AsciiDigits == {"1", "2"}
Parens == {"(", ")", "FW(", "FW)"}
Whitespace == {" "}

\* [\u4e00-\u9fa5A-Za-z0-9\uff08\uff09()]
PrimaryClass == CJKPrimary \cup AsciiLetters \cup AsciiDigits \cup Parens
\* [\u4e00-\u9fff]
FallbackClass == CJKPrimary \cup CJKExtra

\* the literal label qu-shi-qiang-du (\u8d8b\u52bf\u5f3a\u5ea6, 'trend strength')
Label == <<"qu", "shi", "qiang", "du">>

invalid_keywords ==
    << <<"qu", "shi">>, <<"qiang", "du">>, <<"zhu", "shi4">>, <<"dong", "guan">>,
       <<"da", "fu">>, <<"gong", "si">>, <<"you", "xian">>, <<"ji", "tuan">> >>

\* python: str.strip()
RECURSIVE LStrip(_)
LStrip(s) == IF s # <<>> /\ Head(s) \in Whitespace THEN LStrip(Tail(s)) ELSE s

RECURSIVE RStrip(_)
RStrip(s) ==
    IF s # <<>> /\ s[Len(s)] \in Whitespace THEN RStrip(SubSeq(s, 1, Len(s) - 1)) ELSE s

Strip(s) == RStrip(LStrip(s))

\* python: str.isdigit() (False on the empty string)
IsDigit(s) == s # <<>> /\ \A i \in 1..Len(s) : s[i] \in AsciiDigits

\* re.match(r'^[\u4e00-\u9fa5A-Za-z0-9\uff08\uff09()]+$', variety)
MatchesNameClass(s) == s # <<>> /\ \A i \in 1..Len(s) : s[i] \in PrimaryClass

-----------------------------------------------------------------------------
(* Numbers.  A numeric string [+-]?\d+(?:\.\d+)? is [sign, ip, fp]: the    *)
(* sign character ("" when absent), the integer digits and the fraction    *)
(* digits (<<>> when there is no ".").  The model draws strings with at    *)
(* most one fraction digit, so a float is an exact number of tenths.       *)

RECURSIVE DigitsValue(_)
DigitsValue(ds) ==
    IF ds = <<>> THEN 0 ELSE DigitsValue(SubSeq(ds, 1, Len(ds) - 1)) * 10 + ds[Len(ds)]

\* python: float(strength), in tenths
Float(ns) ==
    LET mag == DigitsValue(ns.ip) * 10 + (IF ns.fp = <<>> THEN 0 ELSE ns.fp[1])
    IN  IF ns.sign = "-" THEN 0 - mag ELSE mag

\* python: int(round(x)) of a float given in tenths: round half to even
IntRound(t) ==
    LET q == t \div 10
        r == t % 10
    IN  IF r < 5 THEN q
        ELSE IF r > 5 THEN q + 1
        ELSE IF q % 2 = 0 THEN q ELSE q + 1

RECURSIVE NatDigits(_)
NatDigits(n) == IF n < 10 THEN <<n>> ELSE Append(NatDigits(n \div 10), n % 10)

\* python: str(n) of an int
StrOfInt(n) ==
    [sign |-> IF n < 0 THEN "-" ELSE "",
     ip   |-> NatDigits(IF n < 0 THEN 0 - n ELSE n),
     fp   |-> <<>>]

\* the range test  -10 <= x <= 10  on a float given in tenths
InRange(t) == -100 <= t /\ t <= 100

\* A stored score: a python str (the digits as written), or a python float
StrScore(ns) == [kind |-> "str", sign |-> ns.sign, ip |-> ns.ip, fp |-> ns.fp]

\* python: repr of a float given in tenths, as a stored float score
FloatScore(t) ==
    LET m == IF t < 0 THEN 0 - t ELSE t
    IN  [kind |-> "float", sign |-> IF t < 0 THEN "-" ELSE "",
         ip |-> NatDigits(m \div 10), fp |-> <<m % 10>>]

\* the numeric value of a stored score, in tenths
ScoreValue(sc) == Float(sc)

-----------------------------------------------------------------------------
(* Dates *)

IsLeap(y) == (y % 4 = 0 /\ y % 100 # 0) \/ y % 400 = 0

DaysInMonth(y, m) ==
    IF m \in {4, 6, 9, 11} THEN 30
    ELSE IF m = 2 THEN (IF IsLeap(y) THEN 29 ELSE 28)
    ELSE 31

\* datetime.strptime(report_date, '%Y-%m-%d') does not raise ValueError
StrptimeOk(d) ==
    /\ d[1] >= 1 /\ d[1] <= 9999
    /\ d[2] >= 1 /\ d[2] <= 12
    /\ d[3] >= 1 /\ d[3] <= DaysInMonth(d[1], d[2])

\* the dates datetime.now() may give
Today == {<<2025, 1, 21>>}

\* the dates a filename or a body text may spell: two real ones, month 13, 30 February
D1 == <<2025, 1, 19>>
D2 == <<2025, 1, 20>>
BadMonth == <<2025, 13, 1>>
BadDay == <<2025, 2, 30>>

-----------------------------------------------------------------------------
(* Records.  One shape for every program, as a DataFrame of mixed rows has *)
(* it: a column a row lacks is <<>> (NaN).                                 *)

Rec(variety, strength, sfloat, date, seq, category, filename) ==
    [variety |-> variety, strength |-> strength, strength_float |-> sfloat,
     date |-> date, seq |-> seq, category |-> category, filename |-> filename]

Key(r) == <<r.date, r.variety>>

-----------------------------------------------------------------------------
(* Documents.  A PDF is what the programs read from it:                    *)
(*   filename.run  the first 8-digit run of the file name, as <<Y, M, D>>  *)
(*                 (<<>> when the name holds none)                         *)
(*   text_ok       extract_text_from_pdf returned a non-empty text         *)
(*   body[p]       the first match of date pattern p in the text, as       *)
(*                 <<Y, M, D>> (<<>> when p does not match)                *)
(*   matches       re.findall of the primary pattern, in text order        *)
(*   cats[c]       for category c of the trend-strength section, the       *)
(*                 pairs its three sub-format patterns find, in the order  *)
(*                 the code concatenates them (<<>> when the section or    *)
(*                 the category is absent or empty)                        *)

DatePatterns == {"cn", "dash", "slash", "compact"}

\* categories = {strong: 1, neutral: 0, weak: -1}, in dict order
categories == <<"strong", "neutral", "weak">>

Pair(name, num) == [name |-> name, num |-> num]

Num(sign, ip, fp) == [sign |-> sign, ip |-> ip, fp |-> fp]

FileName(stem, run) == [stem |-> stem, run |-> run]

NoBody == [p \in DatePatterns |-> <<>>]

NoCats == [c \in Range(categories) |-> <<>>]

Doc(filename, text_ok, body, matches, cats) ==
    [filename |-> filename, text_ok |-> text_ok, body |-> body,
     matches |-> matches, cats |-> cats]

-----------------------------------------------------------------------------
(* Date Resolver *)

\* f"{year}-{month}-{day}" of a match: the three numbers
DateOf(m) == m[1]

\* extract_trend_strength_from_text, "if not report_date": the first pattern of
\* compact, dash, slash that matches gives the date, unvalidated
BodyDateUnchecked(body) ==
    IF body["compact"] # <<>> THEN body["compact"]
    ELSE IF body["dash"] # <<>> THEN body["dash"]
    ELSE IF body["slash"] # <<>> THEN body["slash"]
    ELSE <<>>

\* streamlit_app_full.analyze_pdf_trend_strength: the loop over date_patterns.
\* report_date is assigned before strptime and is not reset when strptime
\* raises, so an invalid match stays the date unless a later pattern matches.
RECURSIVE BodyDateLoop(_, _, _)
BodyDateLoop(body, order, report_date) ==
    IF order = <<>> THEN report_date
    ELSE LET m == body[Head(order)]
         IN  IF m = <<>> THEN BodyDateLoop(body, Tail(order), report_date)
             ELSE IF StrptimeOk(DateOf(m)) THEN m
             ELSE BodyDateLoop(body, Tail(order), m)

\* the 8-digit run of the file name, validated by strptime (lite, full)
FileNameDateChecked(filename) ==
    IF filename.run # <<>> /\ StrptimeOk(DateOf(filename.run)) THEN filename.run ELSE <<>>

\* the report date analyze_pdf_trend_strength hands to the extractor, and the
\* extractor settles on; now is what datetime.now() gives
ResolveDate(a, doc, now) ==
    LET fromName == IF a = "desktop" THEN doc.filename.run
                    ELSE FileNameDateChecked(doc.filename)
        fromBody == IF fromName # <<>> THEN fromName
                    ELSE IF a = "desktop" THEN BodyDateUnchecked(doc.body)
                    ELSE IF a = "full"
                         THEN BodyDateLoop(doc.body, <<"cn", "dash", "slash", "compact">>, <<>>)
                    ELSE <<>>
    IN  IF fromBody # <<>> THEN DateOf(fromBody) ELSE now

-----------------------------------------------------------------------------
(* Record Extractor, primary pattern *)

\* variety.strip(), then the "qu-shi-qiang-du" suffix removed (variety[:-4])
CleanName(name) ==
    LET variety == Strip(name)
    IN  IF EndsWith(variety, Label) THEN SubSeq(variety, 1, Len(variety) - 4) ELSE variety

\* the filter on the name
NameAccepted(variety) ==
    /\ Len(variety) > 0
    /\ ~ \E k \in 1..Len(invalid_keywords) : Contains(invalid_keywords[k], variety)
    /\ ~ IsDigit(variety)
    /\ MatchesNameClass(variety)

\* the score a program stores for the matched numeric string
StoredStrength(a, num) ==
    IF a = "desktop" THEN FloatScore(Float(num))
    ELSE IF a = "lite" THEN StrScore(StrOfInt(IntRound(Float(num))))
    ELSE StrScore(num)

\* key of found_data: desktop (variety, strength_value), lite (variety,
\* strength_str), full (variety, strength)
FoundKey(a, variety, num) == <<variety, StoredStrength(a, num)>>

PrimaryRecord(a, variety, num, report_date) ==
    Rec(variety, StoredStrength(a, num),
        IF a = "full" THEN <<Float(num)>> ELSE <<>>,
        report_date, <<>>, <<>>, <<>>)

\* Accepts without the "key not in found_data" test
AcceptsNoDedup(a, variety, num, found_data) ==
    /\ NameAccepted(variety)
    /\ InRange(Float(num))

\* the conditions under which a match becomes a record: the name filter, the
\* range test and "key not in found_data"
Accepts(a, variety, num, found_data) ==
    /\ NameAccepted(variety)
    /\ InRange(Float(num))
    /\ FoundKey(a, variety, num) \notin found_data

\* the loop "for match in matches": acc is [found |-> found_data, out |-> trend_data]
RECURSIVE PrimaryLoop(_, _, _, _)
PrimaryLoop(a, matches, report_date, acc) ==
    IF matches = <<>> THEN acc.out
    ELSE LET m == Head(matches)
             variety == CleanName(m.name)
             key == FoundKey(a, variety, m.num)
         IN  PrimaryLoop(a, Tail(matches), report_date,
                 IF Accepts(a, variety, m.num, acc.found)
                 THEN [found |-> acc.found \cup {key},
                       out |-> Append(acc.out, PrimaryRecord(a, variety, m.num, report_date))]
                 ELSE acc)

PrimaryExtract(a, matches, report_date) ==
    PrimaryLoop(a, matches, report_date, [found |-> {}, out |-> <<>>])

-----------------------------------------------------------------------------
(* Record Extractor, fallback sectioned pattern (full only) *)

\* "seen": the first pair of every stripped name, in order
RECURSIVE UniqueVarieties(_, _)
UniqueVarieties(varieties, seen) ==
    IF varieties = <<>> THEN <<>>
    ELSE IF Strip(Head(varieties).name) \in seen
         THEN UniqueVarieties(Tail(varieties), seen)
         ELSE <<Head(varieties)>> \o
              UniqueVarieties(Tail(varieties), seen \cup {Strip(Head(varieties).name)})

\* "for i, (variety, number) in enumerate(unique_varieties, 1)"
RECURSIVE CategoryLoop(_, _, _, _)
CategoryLoop(unique, i, category, report_date) ==
    IF i > Len(unique) THEN <<>>
    ELSE (IF InRange(Float(unique[i].num))
          THEN << Rec(Strip(unique[i].name), StrScore(unique[i].num),
                      <<Float(unique[i].num)>>, report_date, <<i>>, <<category>>, <<>>) >>
          ELSE <<>>)
         \o CategoryLoop(unique, i + 1, category, report_date)

FallbackExtract(cats, report_date) ==
    Concat([k \in 1..Len(categories) |->
              CategoryLoop(UniqueVarieties(cats[categories[k]], {}), 1,
                           categories[k], report_date)])

\* extract_trend_strength_from_text(text, report_date)
extract_trend_strength_from_text(a, doc, report_date) ==
    LET primary == PrimaryExtract(a, doc.matches, report_date)
    IN  IF a = "full" /\ primary = <<>>
        THEN FallbackExtract(doc.cats, report_date)
        ELSE primary

\* item['filename'] = filename for every item (lite, full)
WithFileName(a, recs, filename) ==
    IF a = "desktop" THEN recs
    ELSE [i \in 1..Len(recs) |-> [recs[i] EXCEPT !.filename = <<filename>>]]

\* analyze_pdf_trend_strength: the trend_data it returns
analyze_pdf_trend_strength(a, doc, now) ==
    IF ~ doc.text_ok THEN <<>>
    ELSE WithFileName(a,
             extract_trend_strength_from_text(a, doc, ResolveDate(a, doc, now)),
             doc.filename)

-----------------------------------------------------------------------------
(* The inputs the model draws *)

Apps == {"desktop", "lite", "full"}

WebApps == {"lite", "full"}

\* names the primary pattern may capture: a plain one, one that over-captured
\* the label, the label alone, a denylisted one, a purely numeric one
NamePool ==
    { <<"tong">>,
      <<"tong">> \o Label,
      Label,
      <<"dong", "guan", "tong">>,
      <<"1", "2">> }

\* numeric strings: "3", "3.0", "3.5", "2.5", "15", "-10"
NumPool ==
    { Num("", <<3>>, <<>>), Num("", <<3>>, <<0>>), Num("", <<3>>, <<5>>),
      Num("", <<2>>, <<5>>), Num("", <<1, 5>>, <<>>), Num("-", <<1, 0>>, <<>>) }

\* the matches drawn: the plain name with every number, the over-captured name
\* with an integer and a fraction, every other name with "3"
MatchPool ==
    {Pair(<<"tong">>, x) : x \in NumPool}
        \cup {Pair(<<"tong">> \o Label, x) : x \in {Num("", <<3>>, <<>>), Num("", <<3>>, <<5>>)}}
        \cup {Pair(n, Num("", <<3>>, <<>>)) : n \in NamePool}

\* names the fallback's [\u4e00-\u9fff]+ may capture; numbers "1" and "15"
FallbackPool ==
    {Pair(n, x) : n \in { <<"tong">>, <<"ji", "tuan">>, <<"u9fc0">> },
                  x \in { Num("", <<1>>, <<>>), Num("", <<1, 5>>, <<>>) }}

DateCandidates == {<<>>, <<D1>>, <<BadMonth>>, <<BadDay>>}

BodyCandidates == {<<>>, <<D2>>, <<BadMonth>>}

\* documents that vary the primary matches
MatchDocs ==
    {Doc(FileName("a", <<D1>>), ok, NoBody, ms, NoCats) :
        ok \in BOOLEAN, ms \in SeqsUpTo(MatchPool, MaxMatches)}

\* documents that vary where a date can be found
DateDocs ==
    {Doc(FileName("a", run), TRUE, body,
         <<Pair(<<"tong">>, Num("", <<3>>, <<>>))>>, NoCats) :
        run \in DateCandidates, body \in [DatePatterns -> BodyCandidates]}

\* documents with a trend-strength section: no primary match, one the filter
\* rejects, or one it accepts
SectionDocs ==
    {Doc(FileName("a", <<D1>>), TRUE, NoBody, ms,
         [strong |-> st, neutral |-> ne, weak |-> we]) :
        ms \in { <<>>, <<Pair(Label, Num("", <<3>>, <<>>))>>,
                 <<Pair(<<"tong">>, Num("", <<3>>, <<>>))>> },
        st \in SeqsUpTo(FallbackPool, MaxEntries),
        ne \in SeqsUpTo(FallbackPool, 1),
        we \in {<<>>, <<Pair(<<"tong">>, Num("", <<1>>, <<>>))>>}}

Docs == MatchDocs \cup DateDocs \cup SectionDocs

-----------------------------------------------------------------------------
(* SpecExtract: analyze_pdf_trend_strength applied once to a drawn document *)

Idle ==
    /\ session = FALSE
    /\ historical_data = <<>>
    /\ csv_file = <<>>
    /\ uploaded_files = <<>>
    /\ all_trend_data = <<>>
    /\ prev_data = <<>>
    /\ last_op = "none"
    /\ reingest = FALSE
    /\ pivot_file = <<>>
    /\ deleted_date = <<>>
    /\ faults = 0
    /\ load_error = FALSE
    /\ pivot_df = <<>>
    /\ batch_pos = 0
    /\ failed_count = 0
    /\ GuiIdle

NoPdf == Doc(FileName("", <<>>), FALSE, NoBody, <<>>, NoCats)

InitExtract ==
    /\ app \in Apps
    /\ pdf \in Docs
    /\ trend_data = <<>>
    /\ pc = "start"
    /\ Idle

AnalyzePdf ==
    /\ pc = "start"
    /\ \E now \in Today : trend_data' = analyze_pdf_trend_strength(app, pdf, now)
    /\ pc' = "done"
    /\ UNCHANGED <<app, pdf, session, historical_data, csv_file, uploaded_files,
                   all_trend_data, prev_data, last_op, reingest, pivot_file,
                   deleted_date, faults, load_error, pivot_df, batch_pos, failed_count, gui>>

NextExtract == AnalyzePdf

SpecExtract == InitExtract /\ [][NextExtract]_vars

-----------------------------------------------------------------------------
(* Historical Store and Incremental Merge of the web programs *)

\* the elements of df at the indices in keep, in order
RECURSIVE Pick(_, _, _)
Pick(df, keep, i) ==
    IF i > Len(df) THEN <<>>
    ELSE (IF i \in keep THEN <<df[i]>> ELSE <<>>) \o Pick(df, keep, i + 1)

\* drop_duplicates with keep='first' in place of keep='last'
DropDuplicatesKeepFirst(df) ==
    Pick(df, {i \in 1..Len(df) : \A j \in 1..(i - 1) : Key(df[j]) # Key(df[i])}, 1)

\* combined_df.drop_duplicates(subset=[date, variety], keep='last')
DropDuplicates(df) ==
    Pick(df, {i \in 1..Len(df) : \A j \in (i + 1)..Len(df) : Key(df[j]) # Key(df[i])}, 1)

\* the condition of the merge branch: lite asks for a non-empty history, full
\* only for the session key, which main() always sets
MergeBranch(a, historical, incremental) ==
    incremental /\ (a = "full" \/ historical # <<>>)

\* combined_df of save_trend_strength_pivot_csv
Combined(a, historical, new_df, incremental) ==
    IF MergeBranch(a, historical, incremental)
    THEN DropDuplicates(historical \o new_df)
    ELSE new_df

\* DataFrame.to_csv: every score is written as its text
CsvRow(r) == [r EXCEPT !.strength = [@ EXCEPT !.kind = "text"]]

ToCsv(df) == [i \in 1..Len(df) |-> CsvRow(df[i])]

\* pd.read_csv: the score column is int64 when every cell is an integer text,
\* float64 otherwise; the other columns come back as written.  lite drops
\* the strength_float column.
ReadCsv(a, rows) ==
    LET allInt == \A i \in 1..Len(rows) : rows[i].strength.fp = <<>>
        score(t) == IF allInt THEN [kind |-> "int"] @@ StrOfInt(Float(t) \div 10)
                    ELSE FloatScore(Float(t))
    IN  [i \in 1..Len(rows) |->
            [rows[i] EXCEPT !.strength = score(rows[i].strength),
                            !.strength_float = IF a = "lite" THEN <<>> ELSE @]]

\* The store and the file as a handler leaves them
Disk(hist, csv) == [hist |-> hist, csv |-> csv]

\* main(): "if 'historical_data' not in st.session_state"
LoadStore(a, csv) == IF csv = <<>> THEN <<>> ELSE ReadCsv(a, csv[1])

\* a load that hands on what the file holds although read_csv raised
LoadIgnoringError(a, csv, readable) == LoadStore(a, csv)

\* the same with the try/except around read_csv: readable is FALSE when
\* read_csv raises, and the store is then the empty list
LoadOrEmpty(a, csv, readable) == IF readable THEN LoadStore(a, csv) ELSE <<>>

\* "try: ... to_csv(csv_file_path) except Exception: st.error": the file after
\* the attempt; a write that raises leaves the file as it was
WriteCsv(csv, rows, ok) == IF ok THEN <<rows>> ELSE csv

\* a removal that leaves an empty file behind
Emptied(csv, ok) == IF ok THEN << <<>> >> ELSE csv

\* "try: ... csv_file_path.unlink() except Exception: st.error"
Unlink(csv, ok) == IF ok THEN <<>> ELSE csv

\* save_trend_strength_pivot_csv(data, incremental=...): session_state and file
SaveStore(a, d, data, incremental, ok) ==
    IF data = <<>> THEN d
    ELSE LET combined_df == Combined(a, d.hist, data, incremental)
         IN  Disk(combined_df, WriteCsv(d.csv, ToCsv(combined_df), ok))

\* a history view that saves the store without its first record
RefreshLosingFirst(a, d, ok) ==
    IF d.hist # <<>> THEN SaveStore(a, d, Tail(d.hist), FALSE, ok) ELSE d

\* main(): "if st.session_state.historical_data:" the history view
Refresh(a, d, ok) == IF d.hist # <<>> THEN SaveStore(a, d, d.hist, FALSE, ok) ELSE d

\* the loop over uploaded_files: all_trend_data
RECURSIVE AnalyzeAll(_, _, _)
AnalyzeAll(a, files, now) ==
    IF files = <<>> THEN <<>>
    ELSE analyze_pdf_trend_strength(a, Head(files), now) \o AnalyzeAll(a, Tail(files), now)

\* a handler without the tests for empty data: the store becomes what the
\* files gave, also when they gave nothing
AfterAnalyzeReplacing(a, d, data, ok) == Disk(data, WriteCsv(d.csv, ToCsv(data), ok))

\* the button "start analysis": lite analyses and then shows the history, full
\* shows the history first; st.stop() ends the run when nothing was extracted
AfterAnalyze(a, d, data, ok) ==
    IF a = "lite"
    THEN (IF data = <<>> THEN d ELSE Refresh(a, SaveStore(a, d, data, TRUE, ok), ok))
    ELSE SaveStore(a, Refresh(a, d, ok), data, TRUE, ok)

\* a "remaining" that keeps the records of the selected date and drops the others
RemainingOfDate(historical, selected_date) ==
    SelectSeq(historical, LAMBDA item : item.date = selected_date)

\* remaining = [item for item in historical_data if item.get(date) != selected_date]
Remaining(historical, selected_date) ==
    SelectSeq(historical, LAMBDA item : item.date # selected_date)

\* the button "delete the selected date" of lite, and the rerun it asks for
AfterDelete(a, d, selected_date, ok) ==
    LET shown == Refresh(a, d, ok)
        remaining == Remaining(shown.hist, selected_date)
    IN  Refresh(a, Disk(remaining,
                        IF remaining # <<>> THEN WriteCsv(shown.csv, ToCsv(remaining), ok)
                        ELSE Unlink(shown.csv, ok)),
                ok)

\* the button "clear the history" of full, and the rerun it asks for
AfterClear(a, d, ok) == Disk(<<>>, Unlink(d.csv, ok))

-----------------------------------------------------------------------------
(* Spec: one browser session after another on the web programs *)

\* the files a user may upload: all dated by their names
\*   a  D1  tong 3          b  D1  tong -2.5
\*   d  D2  tong 3, tong 3.5 (one key twice)      e  D2  nothing extractable
WebDocs ==
    { Doc(FileName("a", <<D1>>), TRUE, NoBody,
          <<Pair(<<"tong">>, Num("", <<3>>, <<>>))>>, NoCats),
      Doc(FileName("b", <<D1>>), TRUE, NoBody,
          <<Pair(<<"tong">>, Num("-", <<2>>, <<5>>))>>, NoCats),
      Doc(FileName("d", <<D2>>), TRUE, NoBody,
          <<Pair(<<"tong">>, Num("", <<3>>, <<>>)),
            Pair(<<"tong">>, Num("", <<3>>, <<5>>))>>, NoCats),
      Doc(FileName("e", <<D2>>), TRUE, NoBody,
          <<Pair(<<"dong", "guan", "tong">>, Num("", <<3>>, <<>>))>>, NoCats) }

NoExtract ==
    /\ pdf = NoPdf
    /\ trend_data = <<>>
    /\ pc = "none"

Init ==
    /\ app \in WebApps
    /\ NoExtract
    /\ Idle

\* what every handler records about itself
Ran(op, data) ==
    /\ reingest' = (op = "analyze" /\ last_op = "analyze")
    /\ last_op' = op
    /\ prev_data' = historical_data
    /\ all_trend_data' = data

Leaves(d) ==
    /\ historical_data' = d.hist
    /\ csv_file' = d.csv

\* what the script run showed: the st.error of a failed load, the date deleted
Showed(err, del) ==
    /\ load_error' = err
    /\ deleted_date' = del

\* whether file access works in a script run: it may raise while the bound allows
FileAccess == IF faults < MaxFaults THEN BOOLEAN ELSE {TRUE}

Faulted(ok) == faults' = IF ok THEN faults ELSE faults + 1

Here == Disk(historical_data, csv_file)

\* the first script run of a session: load the file, show the history
OpenPage ==
    /\ ~ session
    /\ session' = TRUE
    /\ \E ok \in (IF csv_file = <<>> THEN {TRUE} ELSE FileAccess) :
          /\ Leaves(Refresh(app, Disk(LoadOrEmpty(app, csv_file, ok), csv_file), ok))
          /\ Showed(~ ok, <<>>)
          /\ Faulted(ok)
    /\ Ran("open", <<>>)
    /\ UNCHANGED <<app, pdf, trend_data, pc, uploaded_files, pivot_file,
                   pivot_df, batch_pos, failed_count, gui>>

\* a rerun of the script with no button pressed
Rerun ==
    /\ session
    /\ \E ok \in (IF historical_data = <<>> THEN {TRUE} ELSE FileAccess) :
          /\ Leaves(Refresh(app, Here, ok))
          /\ Faulted(ok)
    /\ Ran("rerun", <<>>)
    /\ Showed(FALSE, <<>>)
    /\ UNCHANGED <<app, pdf, trend_data, pc, session, uploaded_files, pivot_file,
                   pivot_df, batch_pos, failed_count, gui>>

\* the user adds a file not yet there to the uploader, the script reruns
AddFile ==
    /\ session
    /\ Len(uploaded_files) < MaxBatch
    /\ \E file \in WebDocs \ Range(uploaded_files) :
          uploaded_files' = Append(uploaded_files, file)
    /\ \E ok \in (IF historical_data = <<>> THEN {TRUE} ELSE FileAccess) :
          /\ Leaves(Refresh(app, Here, ok))
          /\ Faulted(ok)
    /\ Ran("rerun", <<>>)
    /\ Showed(FALSE, <<>>)
    /\ UNCHANGED <<app, pdf, trend_data, pc, session, pivot_file,
                   pivot_df, batch_pos, failed_count, gui>>

\* the user empties the uploader, the script reruns
RemoveFiles ==
    /\ session
    /\ uploaded_files # <<>>
    /\ uploaded_files' = <<>>
    /\ \E ok \in (IF historical_data = <<>> THEN {TRUE} ELSE FileAccess) :
          /\ Leaves(Refresh(app, Here, ok))
          /\ Faulted(ok)
    /\ Ran("rerun", <<>>)
    /\ Showed(FALSE, <<>>)
    /\ UNCHANGED <<app, pdf, trend_data, pc, session, pivot_file,
                   pivot_df, batch_pos, failed_count, gui>>

\* the button "start analysis" on the uploaded files
ClickAnalyze ==
    /\ session
    /\ uploaded_files # <<>>
    /\ \E now \in Today, ok \in FileAccess :
          LET data == AnalyzeAll(app, uploaded_files, now)
          IN  /\ Leaves(AfterAnalyze(app, Here, data, ok))
              /\ Ran("analyze", data)
              /\ Faulted(ok)
    /\ Showed(FALSE, <<>>)
    /\ UNCHANGED <<app, pdf, trend_data, pc, session, uploaded_files, pivot_file,
                   pivot_df, batch_pos, failed_count, gui>>

\* lite: the button "delete the selected date"
ClickDelete ==
    /\ session
    /\ app = "lite"
    /\ historical_data # <<>>
    /\ \E selected_date \in {historical_data[i].date : i \in 1..Len(historical_data)},
          ok \in FileAccess :
          /\ Leaves(AfterDelete(app, Here, selected_date, ok))
          /\ Showed(FALSE, <<selected_date>>)
          /\ Faulted(ok)
    /\ Ran("delete", <<>>)
    /\ UNCHANGED <<app, pdf, trend_data, pc, session, uploaded_files, pivot_file,
                   pivot_df, batch_pos, failed_count, gui>>

\* full: the button "clear the history"
ClickClear ==
    /\ session
    /\ app = "full"
    /\ historical_data # <<>>
    /\ \E ok \in FileAccess :
          /\ Leaves(AfterClear(app, Refresh(app, Here, ok), ok))
          /\ Faulted(ok)
    /\ Ran("clear", <<>>)
    /\ Showed(FALSE, <<>>)
    /\ UNCHANGED <<app, pdf, trend_data, pc, session, uploaded_files, pivot_file,
                   pivot_df, batch_pos, failed_count, gui>>

\* the browser session ends: session_state and the uploader are gone, the file stays
CloseSession ==
    /\ session
    /\ session' = FALSE
    /\ historical_data' = <<>>
    /\ uploaded_files' = <<>>
    /\ reingest' = FALSE
    /\ last_op' = "close"
    /\ prev_data' = <<>>
    /\ all_trend_data' = <<>>
    /\ Showed(FALSE, <<>>)
    /\ UNCHANGED <<app, pdf, trend_data, pc, csv_file, pivot_file,
                   faults, pivot_df, batch_pos, failed_count, gui>>

Next ==
    \/ OpenPage
    \/ Rerun
    \/ AddFile
    \/ RemoveFiles
    \/ ClickAnalyze
    \/ ClickDelete
    \/ ClickClear
    \/ CloseSession

Spec == Init /\ [][Next]_vars

-----------------------------------------------------------------------------
(* The pivot file of the desktop program.  A pivot is [index, columns,     *)
(* cell]: the set of dates, the set of instruments and the float of every  *)
(* (date, instrument).  A cell is an exact fraction <<n, d>> of tenths,    *)
(* since pivot_table averages the scores that share a cell.  Floats go     *)
(* through to_csv and read_csv unchanged, so the file holds the pivot.     *)

RECURSIVE Gcd(_, _)
Gcd(x, y) == IF y = 0 THEN x ELSE Gcd(y, x % y)

Abs(x) == IF x < 0 THEN 0 - x ELSE x

Frac(n, d) == LET g == Gcd(Abs(n), d) IN <<n \div g, d \div g>>

\* fill_value=0.0 and fillna(0.0)
Zero == Frac(0, 1)

RECURSIVE SumValues(_)
SumValues(recs) ==
    IF recs = <<>> THEN 0 ELSE ScoreValue(Head(recs).strength) + SumValues(Tail(recs))

Keys(recs) == {Key(recs[i]) : i \in 1..Len(recs)}

\* new_df.pivot_table(index=date, columns=variety, values=strength,
\* fill_value=0.0): the default aggfunc is the mean
NewPivot(new_df) ==
    LET index == {new_df[i].date : i \in 1..Len(new_df)}
        columns == {new_df[i].variety : i \in 1..Len(new_df)}
        at(d, v) == SelectSeq(new_df, LAMBDA r : r.date = d /\ r.variety = v)
    IN  [index |-> index, columns |-> columns,
         cell |-> [k \in index \X columns |->
                     IF at(k[1], k[2]) = <<>> THEN Zero
                     ELSE Frac(SumValues(at(k[1], k[2])), Len(at(k[1], k[2])))]]

\* pd.concat([existing, new]), rows with a duplicated date keep the last one,
\* fillna(0.0)
MergePivot(existing, new) ==
    LET index == existing.index \cup new.index
        columns == existing.columns \cup new.columns
    IN  [index |-> index, columns |-> columns,
         cell |-> [k \in index \X columns |->
                     IF k[1] \in new.index
                     THEN (IF k[2] \in new.columns THEN new.cell[k] ELSE Zero)
                     ELSE (IF k[2] \in existing.columns THEN existing.cell[k] ELSE Zero)]]

\* app.save_trend_strength_pivot_csv(all_trend_data, output_dir): the pivot file
SavePivot(file, data) ==
    IF data = <<>> THEN file
    ELSE IF file # <<>> THEN <<MergePivot(file[1], NewPivot(data))>>
    ELSE <<NewPivot(data)>>

-----------------------------------------------------------------------------
(* SpecDesktop: trend-strength runs of the desktop program on one output   *)
(* directory.  uploaded_files holds the PDF files of the batch directory.  *)

\* the PDF files of the desktop runs: the web ones and
\*   c  D1  lv 3
DesktopDocs ==
    WebDocs \cup
    { Doc(FileName("c", <<D1>>), TRUE, NoBody,
          <<Pair(<<"lv">>, Num("", <<3>>, <<>>))>>, NoCats) }

InitDesktop ==
    /\ app = "desktop"
    /\ NoExtract
    /\ Idle

\* run_extraction: the records gathered, then the pivot file saved
DesktopRan(op, data) ==
    /\ reingest' = reingest
    /\ last_op' = op
    /\ prev_data' = pivot_file
    /\ all_trend_data' = data
    /\ pivot_file' = SavePivot(pivot_file, data)

\* a PDF is put into the batch directory
AddPdf ==
    /\ Len(uploaded_files) < MaxBatch
    /\ \E file \in DesktopDocs \ Range(uploaded_files) :
          uploaded_files' = Append(uploaded_files, file)
    /\ UNCHANGED <<app, pdf, trend_data, pc, session, historical_data, csv_file,
                   all_trend_data, prev_data, last_op, reingest, pivot_file,
                   deleted_date, faults, load_error, pivot_df, batch_pos, failed_count, gui>>

\* the batch directory is emptied
EmptyDirectory ==
    /\ uploaded_files # <<>>
    /\ uploaded_files' = <<>>
    /\ UNCHANGED <<app, pdf, trend_data, pc, session, historical_data, csv_file,
                   all_trend_data, prev_data, last_op, reingest, pivot_file,
                   deleted_date, faults, load_error, pivot_df, batch_pos, failed_count, gui>>

\* run_extraction, function "trend", mode "single"
RunSingle ==
    /\ \E file \in DesktopDocs, now \in Today :
          DesktopRan("single", analyze_pdf_trend_strength(app, file, now))
    /\ UNCHANGED <<app, pdf, trend_data, pc, session, historical_data, csv_file,
                   uploaded_files,
                   deleted_date, faults, load_error, pivot_df, batch_pos, failed_count, gui>>

\* run_extraction, function "trend", mode "batch": batch_analyze_trend_strength
RunBatch ==
    /\ uploaded_files # <<>>
    /\ \E now \in Today : DesktopRan("batch", AnalyzeAll(app, uploaded_files, now))
    /\ UNCHANGED <<app, pdf, trend_data, pc, session, historical_data, csv_file,
                   uploaded_files,
                   deleted_date, faults, load_error, pivot_df, batch_pos, failed_count, gui>>

NextDesktop ==
    \/ AddPdf
    \/ EmptyDirectory
    \/ RunSingle
    \/ RunBatch

SpecDesktop == InitDesktop /\ [][NextDesktop]_vars

-----------------------------------------------------------------------------
(* Pivot Builder, Change Annotator and Column Ordering.  A view is the     *)
(* matrix a program shows (web) or writes (desktop):                       *)
(*   index    the dates, in the order of the rows                          *)
(*   before   the instruments in the order pivot_table gives the columns   *)
(*   columns  the instruments in the order of the columns shown            *)
(*   shown    the text of each cell                                        *)
(*   num      the value of each cell the annotator compares                *)
(*   mark     the change marker of each cell ("" when it has none)         *)

\* instruments of the pivot samples, in code-point order (铜, 铝, 锌)
Instruments == << <<"tong">>, <<"lv">>, <<"xin">> >>

\* the order pivot_table and sort_index put strings in
NameBefore(x, y) ==
    \E i, j \in 1..Len(Instruments) : Instruments[i] = x /\ Instruments[j] = y /\ i < j

\* "YYYY-MM-DD" strings compare as their numbers do
DateBefore(d, e) ==
    \/ d[1] < e[1]
    \/ d[1] = e[1] /\ d[2] < e[2]
    \/ d[1] = e[1] /\ d[2] = e[2] /\ d[3] < e[3]

\* pivot_table's columns: the instruments of S from the least to the greatest
SortedNames(S) ==
    CHOOSE q \in [1..Cardinality(S) -> S] :
        \A i, j \in 1..Cardinality(S) : i < j => NameBefore(q[i], q[j])

\* sort_index(): the dates of S from the oldest to the newest
SortedDates(S) ==
    CHOOSE q \in [1..Cardinality(S) -> S] :
        \A i, j \in 1..Cardinality(S) : i < j => DateBefore(q[i], q[j])

Reverse(q) == [i \in 1..Len(q) |-> q[Len(q) + 1 - i]]

\* the fill value '--' of lite, and pd.NA
Missing == [text |-> "--"]

NA == <<>>

\* lite: str(int(float(x))) of a score text; int() truncates towards zero
IntText(score) ==
    LET t == Float(score)
    IN  StrOfInt(IF t < 0 THEN 0 - ((0 - t) \div 10) ELSE t \div 10)

\* the records of recs in the cell (d, v)
CellRecords(recs, d, v) == SelectSeq(recs, LAMBDA r : r.date = d /\ r.variety = v)

Text(score) == [sign |-> score.sign, ip |-> score.ip, fp |-> score.fp]

\* the text of a cell: lite aggfunc='first' on the integer texts, fill '--';
\* full aggfunc='first' on the score texts, fill '0'; desktop the float
ShownCell(a, recs, d, v) ==
    LET here == CellRecords(recs, d, v)
    IN  IF a = "lite" THEN (IF here = <<>> THEN Missing ELSE IntText(here[1].strength))
        ELSE IF a = "full" THEN (IF here = <<>> THEN Num("", <<0>>, <<>>)
                                 ELSE Text(here[1].strength))
        ELSE (IF here = <<>> THEN Zero ELSE Frac(SumValues(here), Len(here)))

RECURSIVE SumFloats(_)
SumFloats(recs) ==
    IF recs = <<>> THEN 0 ELSE Head(recs).strength_float[1] + SumFloats(Tail(recs))

\* the value the annotator compares: lite pd.to_numeric of the text with '--'
\* as NA; full the mean of strength_float, fill 0.0; desktop the float
NumCell(a, recs, d, v) ==
    LET here == CellRecords(recs, d, v)
    IN  IF a = "lite" THEN (IF here = <<>> THEN NA
                            ELSE Frac(Float(IntText(here[1].strength)), 1))
        ELSE IF a = "full" THEN (IF here = <<>> THEN Zero
                                 ELSE Frac(SumFloats(here), Len(here)))
        ELSE (IF here = <<>> THEN Zero ELSE Frac(SumValues(here), Len(here)))

Less(x, y) == x[1] * y[2] < y[1] * x[2]

\* classify_value(v) of lite
classify_value(v) ==
    IF v = Missing THEN "missing"
    ELSE IF Float(v) > 0 THEN "pos"
    ELSE IF Float(v) < 0 THEN "neg"
    ELSE "zero"

Bucket(cols, latest, grp) == SelectSeq(cols, LAMBDA col : classify_value(latest[col]) = grp)

\* a column order that leaves out the columns with no value in the latest row
OrderedWithoutMissing(cols, latest) ==
    Bucket(cols, latest, "pos") \o Bucket(cols, latest, "neg") \o Bucket(cols, latest, "zero")

\* a column order that keeps the order pivot_table gave
OrderedAsBefore(cols, latest) == cols

\* lite: ordered_cols, applied when it has the columns of the pivot
OrderedColumns(cols, latest) ==
    LET ordered_cols == Bucket(cols, latest, "pos") \o Bucket(cols, latest, "neg")
                            \o Bucket(cols, latest, "zero") \o Bucket(cols, latest, "missing")
    IN  IF Range(ordered_cols) = Range(cols) THEN ordered_cols ELSE cols

\* a predecessor that wraps around: the oldest row is compared with the newest
PreviousWrapping(a, n, i) ==
    IF a = "lite" THEN (IF i < n THEN i + 1 ELSE 1)
    ELSE (IF i > 1 THEN i - 1 ELSE n)

\* the row the annotator compares row i of n with, 0 when there is none: lite
\* shift(-1) on rows from new to old, desktop and full row i-1 of rows from old
\* to new
Previous(a, n, i) ==
    IF a = "lite" THEN (IF i < n THEN i + 1 ELSE 0)
    ELSE (IF i > 1 THEN i - 1 ELSE 0)

\* the marker of a cell with value cur whose predecessor has value prev
Marker(a, cur, prev) ==
    IF a = "lite"
    THEN (IF cur # NA /\ prev # NA /\ Less(prev, cur) THEN "up"
          ELSE IF cur # NA /\ prev # NA /\ Less(cur, prev) THEN "down"
          ELSE "")
    ELSE (IF cur # prev THEN "star" ELSE "")

\* lite: pivot_df.head(10) when the full table is not asked for
Head10(rows) == SubSeq(rows, 1, IF Len(rows) < 10 THEN Len(rows) ELSE 10)

\* the view of the records recs
View(a, recs) ==
    LET dates == {recs[i].date : i \in 1..Len(recs)}
        names == {recs[i].variety : i \in 1..Len(recs)}
        before == SortedNames(names)
        rows == IF a = "lite" THEN Reverse(SortedDates(dates))
                ELSE SortedDates(dates)
        shown == [k \in dates \X names |-> ShownCell(a, recs, k[1], k[2])]
        num == [k \in dates \X names |-> NumCell(a, recs, k[1], k[2])]
        columns == IF a = "lite"
                   THEN OrderedColumns(before, [v \in names |-> shown[<<rows[1], v>>]])
                   ELSE before
        index == IF a = "lite" THEN Head10(rows) ELSE rows
        at(d) == CHOOSE i \in 1..Len(index) : index[i] = d
        mark == [k \in Range(index) \X names |->
                    LET p == Previous(a, Len(index), at(k[1]))
                    IN  IF p = 0 THEN ""
                        ELSE Marker(a, num[k], num[<<index[p], k[2]>>])]
    IN  [index |-> index, before |-> before, columns |-> columns,
         shown |-> shown, num |-> num, mark |-> mark]

-----------------------------------------------------------------------------
(* SpecPivot: the view built once from a drawn list of records *)

PivotDates == {D1, D2}

\* score texts "3", "-2", "0"
PivotScores == {Num("", <<3>>, <<>>), Num("-", <<2>>, <<>>), Num("", <<0>>, <<>>)}

PivotKeys == PivotDates \X Range(Instruments)

\* a sample gives every key a score text, or <<>> for no record
Samples == [PivotKeys -> PivotScores \cup {<<>>}]

\* the records of a sample as program a extracts them, by date and instrument
SampleRecords(a, f) ==
    LET keys == Concat([i \in 1..2 |->
                   [j \in 1..Len(Instruments) |->
                       <<SortedDates(PivotDates)[i], Instruments[j]>>]])
        one(k) == IF f[k] = <<>> THEN <<>>
                  ELSE <<PrimaryRecord(a, k[2], f[k], k[1])>>
    IN  Concat([i \in 1..Len(keys) |-> one(keys[i])])

\* a later record for the key (D2, tong), as a second file of the same date or
\* a merge that did not drop duplicates brings it: none, or one with a score
Repeats == {<<>>} \cup {<<x>> : x \in PivotScores}

RepeatRecords(a, extra) ==
    IF extra = <<>> THEN <<>> ELSE <<PrimaryRecord(a, <<"tong">>, extra[1], D2)>>

InitPivot ==
    /\ app \in Apps
    /\ NoExtract
    /\ session = FALSE
    /\ \E f \in Samples, extra \in Repeats :
          LET recs == SampleRecords(app, f) \o RepeatRecords(app, extra)
          IN  /\ historical_data = (IF app = "desktop" THEN <<>> ELSE recs)
              /\ all_trend_data = (IF app = "desktop" THEN recs ELSE <<>>)
    /\ csv_file = <<>>
    /\ uploaded_files = <<>>
    /\ prev_data = <<>>
    /\ last_op = "none"
    /\ reingest = FALSE
    /\ pivot_file = <<>>
    /\ deleted_date = <<>>
    /\ faults = 0
    /\ load_error = FALSE
    /\ pivot_df = <<>>
    /\ batch_pos = 0
    /\ failed_count = 0
    /\ GuiIdle

\* the records the view is built from
ViewInput == IF app = "desktop" THEN all_trend_data ELSE historical_data

\* save_trend_strength_pivot_csv builds the matrix; lite's main() marks it
ShowPivot ==
    /\ last_op = "none"
    /\ last_op' = "show"
    /\ pivot_df' = (IF ViewInput = <<>> THEN <<>> ELSE <<View(app, ViewInput)>>)
    /\ UNCHANGED <<app, pdf, trend_data, pc, session, historical_data, csv_file,
                   uploaded_files, all_trend_data, prev_data, reingest, pivot_file,
                   deleted_date, faults, load_error, batch_pos, failed_count, gui>>

NextPivot == ShowPivot

SpecPivot == InitPivot /\ [][NextPivot]_vars

-----------------------------------------------------------------------------
(* Claims about the Historical Store and the merge *)

Merged == last_op = "analyze" /\ all_trend_data # <<>>

At(recs, k) == {i \in 1..Len(recs) : Key(recs[i]) = k}

\* the last of the records of recs with key k
LastAt(recs, k) == recs[CHOOSE i \in At(recs, k) : \A j \in At(recs, k) : j <= i]

\* C1: last-write-wins.  After a merge, a key held by the existing store and by
\* the incoming records has exactly one record in the store, and it is the
\* incoming one (the last incoming one of that key), not the existing one.
C1_LastWriteWins ==
    Merged =>
        \A k \in Keys(prev_data) \cap Keys(all_trend_data) :
            /\ Cardinality(At(historical_data, k)) = 1
            /\ \A i \in At(historical_data, k) :
                  historical_data[i] = LastAt(all_trend_data, k)

\* C1 witness: a merge replaced an existing score by a different incoming one.
C1_Witness ==
    /\ Merged
    /\ \E k \in Keys(prev_data) \cap Keys(all_trend_data) :
          /\ LastAt(prev_data, k).strength # LastAt(all_trend_data, k).strength
          /\ LastAt(historical_data, k).strength = LastAt(all_trend_data, k).strength

DesktopMerged == last_op \in {"single", "batch"} /\ all_trend_data # <<>> /\ prev_data # <<>>

\* C2 (as claimed): merge keeps what it does not replace.  A (date, instrument)
\* cell of the existing pivot whose key is not among the incoming records has
\* the same value after the merge, also when the incoming records share its
\* date and name other instruments.
C2_MergeKeepsOthers ==
    DesktopMerged =>
        \A d \in prev_data[1].index, v \in prev_data[1].columns :
            <<d, v>> \notin Keys(all_trend_data) =>
                /\ d \in pivot_file[1].index
                /\ v \in pivot_file[1].columns
                /\ pivot_file[1].cell[<<d, v>>] = prev_data[1].cell[<<d, v>>]

\* C3 (as claimed): the store holds at most one record per (date, instrument).
C3_StoreUnique ==
    \A i, j \in 1..Len(historical_data) :
        i # j => Key(historical_data[i]) # Key(historical_data[j])

\* C4 (as claimed): merge(merge(existing, incoming), incoming) holds the
\* records of merge(existing, incoming).
C4_MergeIdempotent ==
    Merged =>
        Range(Combined(app, Combined(app, prev_data, all_trend_data, TRUE),
                       all_trend_data, TRUE))
            = Range(Combined(app, prev_data, all_trend_data, TRUE))

\* C5 (as claimed): analysing the same files a second time in a row leaves the
\* store as the first analysis left it.
C5_ReingestionIdempotent ==
    (last_op = "analyze" /\ reingest) =>
        /\ Range(historical_data) = Range(prev_data)
        /\ Len(historical_data) = Len(prev_data)

\* how many times record r occurs in recs
Count(recs, r) == Cardinality({i \in 1..Len(recs) : recs[i] = r})

\* C11: delete-by-date removes exactly the records of the selected date.  After
\* the delete handler no record of that date remains, every record of another
\* date is in the store as often as before and unchanged, and nothing else is.
C11_DeleteRemovesExactlyDate ==
    last_op = "delete" =>
        /\ \A i \in 1..Len(historical_data) : <<historical_data[i].date>> # deleted_date
        /\ \A r \in Range(prev_data) :
              <<r.date>> # deleted_date => Count(historical_data, r) = Count(prev_data, r)
        /\ Range(historical_data) \subseteq Range(prev_data)

\* C11 witness: a delete removed the records of one date and kept another date's.
C11_Witness ==
    /\ last_op = "delete"
    /\ \E r \in Range(prev_data) : <<r.date>> = deleted_date
    /\ \E r \in Range(prev_data) : <<r.date>> # deleted_date /\ r \in Range(historical_data)

\* the records of the store as the file would spell them, and those in the file
StoreRecords == Range(ToCsv(historical_data))

FileRecords == IF csv_file = <<>> THEN {} ELSE Range(csv_file[1])

\* C12 (as claimed): after every completed merge and every deletion the records
\* in the CSV file are those of the in-memory store, also when the write fails.
C12_DiskMirrorsMemory ==
    (Merged \/ last_op = "delete") => FileRecords = StoreRecords

\* C13 (as claimed): within a session, a key leaves the in-memory store only by
\* the delete-by-date handler applied to that key's date.
C13_KeysOnlyLostByDelete ==
    [][(session /\ session') =>
          \A k \in Keys(historical_data) \ Keys(historical_data') :
              last_op' = "delete" /\ deleted_date' = <<k[1]>>]_vars

\* C19: a load that fails ends with an empty store and a running session.  When
\* read_csv raised at the start of a session, the script run completed, the
\* in-memory store is empty and the file is left in place.
C19_LoadFailureGivesEmptyStore ==
    load_error =>
        /\ session
        /\ last_op = "open"
        /\ historical_data = <<>>
        /\ csv_file # <<>>

\* C19 witness: a session opened on a file that holds records and could not be read.
C19_Witness ==
    /\ load_error
    /\ session
    /\ csv_file # <<>>
    /\ csv_file[1] # <<>>
    /\ historical_data = <<>>

-----------------------------------------------------------------------------
(* SpecBatch: one batch run, file by file.  desktop:                       *)
(* batch_analyze_trend_strength over the PDF files of the directory; web:  *)
(* the handler of the button "start analysis" over the uploaded files.     *)
(* pc is "loop" inside the for loop, "save" after it, "done" at the end.   *)

\* the PDF files of a batch: the desktop ones and
\*   f  D1  a file fitz cannot read, extract_text_from_pdf returns ""
BatchDocs ==
    DesktopDocs \cup
    { Doc(FileName("f", <<D1>>), FALSE, NoBody,
          <<Pair(<<"xin">>, Num("", <<3>>, <<>>))>>, NoCats) }

\* the file lists of a batch: no file twice
Batches ==
    {files \in SeqsUpTo(BatchDocs, MaxBatch) :
        /\ files # <<>>
        /\ \A i, j \in 1..Len(files) : files[i] = files[j] => i = j}

InitBatch ==
    /\ app \in Apps
    /\ uploaded_files \in Batches
    /\ session = (app # "desktop")
    /\ pc = "loop"
    /\ pdf = NoPdf
    /\ trend_data = <<>>
    /\ historical_data = <<>>
    /\ csv_file = <<>>
    /\ all_trend_data = <<>>
    /\ prev_data = <<>>
    /\ last_op = "none"
    /\ reingest = FALSE
    /\ pivot_file = <<>>
    /\ deleted_date = <<>>
    /\ faults = 0
    /\ load_error = FALSE
    /\ pivot_df = <<>>
    /\ batch_pos = 0
    /\ failed_count = 0
    /\ GuiIdle

\* a loop that ends at the first file that gives no records
AfterFileStopping(pos, n, data) == IF data = <<>> \/ pos = n THEN "save" ELSE "loop"

\* "for pdf_file in pdf_files" / "for i, uploaded_file in enumerate(...)": where
\* the run stands after file number pos of n gave data
AfterFile(pos, n, data) == IF pos = n THEN "save" ELSE "loop"

\* one pass of the loop body: the file analysed; its records appended, or the
\* file counted as failed (desktop: failed_count += 1 in the else and in the
\* except branch; web: one st.warning per file without data)
AnalyzeNext ==
    /\ pc = "loop"
    /\ batch_pos < Len(uploaded_files)
    /\ \E now \in Today :
          LET file == uploaded_files[batch_pos + 1]
              data == analyze_pdf_trend_strength(app, file, now)
          IN  /\ pdf' = file
              /\ trend_data' = data
              /\ all_trend_data' = all_trend_data \o data
              /\ failed_count' = IF data = <<>> THEN failed_count + 1 ELSE failed_count
              /\ batch_pos' = batch_pos + 1
              /\ pc' = AfterFile(batch_pos + 1, Len(uploaded_files), data)
    /\ UNCHANGED <<app, session, historical_data, csv_file, uploaded_files, prev_data,
                   last_op, reingest, pivot_file, deleted_date, faults, load_error,
                   pivot_df, gui>>

\* after the loop: "if all_trend_data: save_trend_strength_pivot_csv(...)";
\* the web programs stop the run when nothing was extracted
SaveBatch ==
    /\ pc = "save"
    /\ pc' = "done"
    /\ last_op' = "batch"
    /\ IF app = "desktop"
       THEN /\ pivot_file' = SavePivot(pivot_file, all_trend_data)
            /\ UNCHANGED <<historical_data, csv_file>>
       ELSE LET after == AfterAnalyze(app, Disk(historical_data, csv_file),
                                      all_trend_data, TRUE)
            IN  /\ historical_data' = after.hist
                /\ csv_file' = after.csv
                /\ UNCHANGED pivot_file
    /\ UNCHANGED <<app, pdf, trend_data, session, uploaded_files, all_trend_data,
                   prev_data, reingest, deleted_date, faults, load_error, pivot_df,
                   batch_pos, failed_count, gui>>

NextBatch ==
    \/ AnalyzeNext
    \/ SaveBatch

\* the loop and the save run in one thread that nothing suspends
SpecBatch == InitBatch /\ [][NextBatch]_vars /\ WF_vars(NextBatch)

-----------------------------------------------------------------------------
(* SpecCrash: the write of trend_strength_data.csv row by row, with the    *)
(* process ending at any point.  combined_df.to_csv(csv_file_path) opens   *)
(* the path itself for writing, which empties it, and writes the rows into *)
(* it; there is no temporary file and no rename.  pc is "idle" between     *)
(* saves, "writing" while to_csv runs, "crashed" after the process ended.  *)
(* all_trend_data holds the rows to_csv is writing, batch_pos how many it  *)
(* has written, prev_data the file as it was before the write.             *)

InitCrash ==
    /\ app \in WebApps
    /\ pdf = NoPdf
    /\ trend_data = <<>>
    /\ session = TRUE
    /\ pc = "idle"
    /\ historical_data = <<>>
    /\ csv_file = <<>>
    /\ uploaded_files = <<>>
    /\ all_trend_data = <<>>
    /\ prev_data = <<>>
    /\ last_op = "none"
    /\ reingest = FALSE
    /\ pivot_file = <<>>
    /\ deleted_date = <<>>
    /\ faults = 0
    /\ load_error = FALSE
    /\ pivot_df = <<>>
    /\ batch_pos = 0
    /\ failed_count = 0
    /\ GuiIdle

\* save_trend_strength_pivot_csv up to the opening of the file: the merged
\* records are in session_state, the file is open and empty
OpenForWriting ==
    /\ session
    /\ pc = "idle"
    /\ Len(uploaded_files) < MaxBatch
    /\ \E file \in WebDocs \ Range(uploaded_files), now \in Today :
          LET data == analyze_pdf_trend_strength(app, file, now)
              combined_df == Combined(app, historical_data, data, TRUE)
          IN  /\ data # <<>>
              /\ uploaded_files' = Append(uploaded_files, file)
              /\ historical_data' = combined_df
              /\ all_trend_data' = ToCsv(combined_df)
    /\ prev_data' = csv_file
    /\ csv_file' = << <<>> >>
    /\ batch_pos' = 0
    /\ pc' = "writing"
    /\ last_op' = "open_w"
    /\ UNCHANGED <<app, pdf, trend_data, session, reingest, pivot_file, deleted_date,
                   faults, load_error, pivot_df, failed_count, gui>>

\* to_csv writes the next row
WriteRow ==
    /\ pc = "writing"
    /\ batch_pos < Len(all_trend_data)
    /\ csv_file' = <<Append(csv_file[1], all_trend_data[batch_pos + 1])>>
    /\ batch_pos' = batch_pos + 1
    /\ last_op' = "write_row"
    /\ UNCHANGED <<app, pdf, trend_data, pc, session, historical_data, uploaded_files,
                   all_trend_data, prev_data, reingest, pivot_file, deleted_date,
                   faults, load_error, pivot_df, failed_count, gui>>

\* to_csv returns
CloseFile ==
    /\ pc = "writing"
    /\ batch_pos = Len(all_trend_data)
    /\ pc' = "idle"
    /\ last_op' = "close"
    /\ UNCHANGED <<app, pdf, trend_data, session, historical_data, csv_file,
                   uploaded_files, all_trend_data, prev_data, reingest, pivot_file,
                   deleted_date, faults, load_error, pivot_df, batch_pos, failed_count, gui>>

\* the process ends: session_state is gone, the file is what has been written
Crash ==
    /\ session
    /\ session' = FALSE
    /\ historical_data' = <<>>
    /\ last_op' = IF pc = "writing" THEN "crash_in_write" ELSE "crash"
    /\ pc' = "crashed"
    /\ UNCHANGED <<app, pdf, trend_data, csv_file, uploaded_files, all_trend_data,
                   prev_data, reingest, pivot_file, deleted_date, faults, load_error,
                   pivot_df, batch_pos, failed_count, gui>>

\* the program is started again and a page opened: main() loads the file
Restart ==
    /\ ~ session
    /\ session' = TRUE
    /\ historical_data' = LoadStore(app, csv_file)
    /\ pc' = "idle"
    /\ last_op' = "open"
    /\ UNCHANGED <<app, pdf, trend_data, csv_file, uploaded_files, all_trend_data,
                   prev_data, reingest, pivot_file, deleted_date, faults, load_error,
                   pivot_df, batch_pos, failed_count, gui>>

NextCrash ==
    \/ OpenForWriting
    \/ WriteRow
    \/ CloseFile
    \/ Crash
    \/ Restart

SpecCrash == InitCrash /\ [][NextCrash]_vars

-----------------------------------------------------------------------------
(* SpecMerge: two record lists without a common key saved one after the   *)
(* other into an empty store, in both orders.  all_trend_data is the list  *)
(* A, trend_data the list B.  After the saves the web programs have the    *)
(* store of "A then B" in historical_data and that of "B then A" in        *)
(* prev_data; the desktop program has the two pivot files in pivot_file    *)
(* and prev_data.                                                          *)

MergeKeys == <<  <<D1, <<"tong">> >>, <<D1, <<"lv">> >>, <<D2, <<"tong">> >>, <<D2, <<"lv">> >>  >>

MergeScores == {Num("", <<3>>, <<>>), Num("-", <<2>>, <<>>)}

\* every key is in neither list, in A or in B, with a score
Splits == [1..Len(MergeKeys) -> {<<>>} \cup ({"A", "B"} \X MergeScores)]

\* the records of list side under split f, as program a extracts them
SideRecords(a, f, side) ==
    Concat([i \in 1..Len(MergeKeys) |->
              IF f[i] # <<>> /\ f[i][1] = side
              THEN <<PrimaryRecord(a, MergeKeys[i][2], f[i][2], MergeKeys[i][1])>>
              ELSE <<>>])

InitMerge ==
    /\ app \in Apps
    /\ pdf = NoPdf
    /\ pc = "none"
    /\ \E f \in Splits :
          /\ all_trend_data = SideRecords(app, f, "A")
          /\ trend_data = SideRecords(app, f, "B")
    /\ session = (app # "desktop")
    /\ historical_data = <<>>
    /\ csv_file = <<>>
    /\ uploaded_files = <<>>
    /\ prev_data = <<>>
    /\ last_op = "none"
    /\ reingest = FALSE
    /\ pivot_file = <<>>
    /\ deleted_date = <<>>
    /\ faults = 0
    /\ load_error = FALSE
    /\ pivot_df = <<>>
    /\ batch_pos = 0
    /\ failed_count = 0
    /\ GuiIdle

\* the store of a web program after first, then second, were saved
SavedInOrder(a, first, second) ==
    SaveStore(a, SaveStore(a, Disk(<<>>, <<>>), first, TRUE, TRUE), second, TRUE, TRUE)

\* save_trend_strength_pivot_csv on A then B, and on B then A
MergeBothWays ==
    /\ last_op = "none"
    /\ last_op' = "merge"
    /\ IF app = "desktop"
       THEN /\ pivot_file' = SavePivot(SavePivot(<<>>, all_trend_data), trend_data)
            /\ prev_data' = SavePivot(SavePivot(<<>>, trend_data), all_trend_data)
            /\ UNCHANGED <<historical_data, csv_file>>
       ELSE /\ historical_data' = SavedInOrder(app, all_trend_data, trend_data).hist
            /\ csv_file' = SavedInOrder(app, all_trend_data, trend_data).csv
            /\ prev_data' = SavedInOrder(app, trend_data, all_trend_data).hist
            /\ UNCHANGED pivot_file
    /\ UNCHANGED <<app, pdf, trend_data, pc, session, uploaded_files, all_trend_data,
                   reingest, deleted_date, faults, load_error, pivot_df, batch_pos,
                   failed_count, gui>>

NextMerge == MergeBothWays

SpecMerge == InitMerge /\ [][NextMerge]_vars

-----------------------------------------------------------------------------
(* SpecGui: the desktop window.  The Tk main loop runs one handler at a    *)
(* time: the command of the start button and the callbacks the worker      *)
(* threads hand to root.after.  A worker thread runs run_extraction with   *)
(* the arguments it was created with.  uploaded_files holds the PDF files  *)
(* of the directory a batch run reads.                                     *)

\* the files the user may select: with records, without records, unreadable
GuiDocs ==
    { Doc(FileName("a", <<D1>>), TRUE, NoBody,
          <<Pair(<<"tong">>, Num("", <<3>>, <<>>))>>, NoCats),
      Doc(FileName("e", <<D2>>), TRUE, NoBody,
          <<Pair(<<"dong", "guan", "tong">>, Num("", <<3>>, <<>>))>>, NoCats),
      Doc(FileName("f", <<D1>>), FALSE, NoBody,
          <<Pair(<<"xin">>, Num("", <<3>>, <<>>))>>, NoCats) }

\* the directories of a batch run: empty, or with files of GuiDocs
GuiDirectories ==
    {files \in SeqsUpTo(GuiDocs, MaxBatch) : \A i, j \in 1..Len(files) : files[i] = files[j] => i = j}

InitGui ==
    /\ app = "desktop"
    /\ NoExtract
    /\ session = FALSE
    /\ historical_data = <<>>
    /\ csv_file = <<>>
    /\ uploaded_files \in GuiDirectories
    /\ all_trend_data = <<>>
    /\ prev_data = <<>>
    /\ last_op = "none"
    /\ reingest = FALSE
    /\ pivot_file = <<>>
    /\ deleted_date = <<>>
    /\ faults = 0
    /\ load_error = FALSE
    /\ pivot_df = <<>>
    /\ batch_pos = 0
    /\ failed_count = 0
    /\ GuiIdle

\* a start that leaves the button as it is
ButtonLeftAsItIs(state) == state

\* start_extraction: self.extract_button.config(state='disabled')
ButtonAfterStart(state) == "disabled"

\* a worker that ends without handing a callback to the main loop
PostNothing(queue, callback) == queue

\* self.root.after(0, callback, ...): the callback joins the main loop's queue
Post(queue, callback) == Append(queue, callback)

\* start_extraction(): the command of the start button.  file_path is <<>>
\* for an empty entry, output_dir "" for an empty entry, pages_ok tells whether
\* the page settings are numbers
start_extraction ==
    /\ extract_button = "normal"
    /\ started < MaxRuns
    /\ \E file_path \in {<<>>} \cup {<<d>> : d \in GuiDocs},
          output_dir \in {"", "out"},
          mode \in {"single", "batch"},
          function \in {"text", "trend"},
          pages_ok \in BOOLEAN :
          IF file_path = <<>> \/ output_dir = "" \/ (function = "text" /\ ~ pages_ok)
          THEN /\ last_op' = "showerror"
               /\ UNCHANGED gui
          ELSE /\ last_op' = "start"
               /\ extract_button' = ButtonAfterStart(extract_button)
               /\ progress' = TRUE
               /\ threads' = Append(threads, [file_path |-> file_path, mode |-> mode,
                                              function |-> function])
               /\ started' = started + 1
               /\ UNCHANGED after_queue
    /\ UNCHANGED <<app, pdf, trend_data, pc, session, historical_data, csv_file,
                   uploaded_files, all_trend_data, prev_data, reingest, pivot_file,
                   deleted_date, faults, load_error, pivot_df, batch_pos, failed_count>>

\* the records a trend run gathers
Gathered(args, now) ==
    IF args.mode = "single" THEN analyze_pdf_trend_strength(app, args.file_path[1], now)
    ELSE AnalyzeAll(app, uploaded_files, now)

\* result of run_extraction: "success", "failed", or "none" for a text batch
\* that returns None
ResultOf(args, data) ==
    IF args.function = "trend" THEN (IF data # <<>> THEN "success" ELSE "failed")
    ELSE IF args.mode = "single"
         THEN (IF args.file_path[1].text_ok THEN "success" ELSE "failed")
         ELSE (IF uploaded_files = <<>> THEN "none" ELSE "success")

Without(q, i) == SubSeq(q, 1, i - 1) \o SubSeq(q, i + 1, Len(q))

\* run_extraction in a worker thread, to its end: the work, then root.after
\* with extraction_complete, or with extraction_error when an exception was
\* caught; a trend run that raises may or may not have written the pivot file
run_extraction ==
    /\ \E i \in 1..Len(threads), now \in Today, raised \in BOOLEAN, wrote \in BOOLEAN :
          LET args == threads[i]
              data == IF args.function = "trend" THEN Gathered(args, now) ELSE <<>>
          IN  /\ threads' = Without(threads, i)
              /\ all_trend_data' = data
              /\ pivot_file' = IF raised /\ ~ wrote THEN pivot_file
                               ELSE SavePivot(pivot_file, data)
              /\ after_queue' =
                    IF raised
                    THEN Post(after_queue, [callback |-> "extraction_error", result |-> "none"])
                    ELSE Post(after_queue, [callback |-> "extraction_complete",
                                            result |-> ResultOf(args, data)])
    /\ last_op' = "worker"
    /\ prev_data' = pivot_file
    /\ UNCHANGED <<app, pdf, trend_data, pc, session, historical_data, csv_file,
                   uploaded_files, reingest, deleted_date, faults, load_error, pivot_df,
                   batch_pos, failed_count, extract_button, progress, started>>

\* the main loop runs the next callback: extraction_complete or
\* extraction_error, which both stop the progress bar and enable the button
\* before they show the result
RunCallback ==
    /\ after_queue # <<>>
    /\ after_queue' = Tail(after_queue)
    /\ progress' = FALSE
    /\ extract_button' = "normal"
    /\ last_op' = IF Head(after_queue).callback = "extraction_error" THEN "error"
                  ELSE IF Head(after_queue).result = "success" THEN "showinfo"
                  ELSE "showerror"
    /\ UNCHANGED <<app, pdf, trend_data, pc, session, historical_data, csv_file,
                   uploaded_files, all_trend_data, prev_data, reingest, pivot_file,
                   deleted_date, faults, load_error, pivot_df, batch_pos, failed_count,
                   threads, started>>

NextGui ==
    \/ start_extraction
    \/ run_extraction
    \/ RunCallback

SpecGui == InitGui /\ [][NextGui]_vars

\* a worker thread the scheduler keeps running ends, and the main loop keeps
\* running the callbacks it holds
SpecGuiLive == SpecGui /\ WF_vars(run_extraction) /\ WF_vars(RunCallback)

-----------------------------------------------------------------------------
(* Claims about the Pivot Builder, the Change Annotator and the Column     *)
(* Ordering Policy (SpecPivot)                                             *)

Built == pivot_df # <<>>

\* the chronologically oldest and the most recent date of the view
OldestDate == CHOOSE d \in Range(pivot_df[1].index) :
                  \A e \in Range(pivot_df[1].index) : ~ DateBefore(e, d)

LatestDate == CHOOSE d \in Range(pivot_df[1].index) :
                  \A e \in Range(pivot_df[1].index) : ~ DateBefore(d, e)

\* the chronological predecessors of date d in the view
Earlier(d) == {e \in Range(pivot_df[1].index) : DateBefore(e, d)}

\* what the records say of (d, v): <<>> when there is no record, else <<score>>
Recorded(d, v) ==
    LET here == CellRecords(ViewInput, d, v)
    IN  IF here = <<>> THEN <<>> ELSE <<ScoreValue(here[1].strength)>>

\* C14: no cell of the chronologically oldest row carries a change marker,
\* whatever the cell holds.
C14_OldestRowUnmarked ==
    Built => \A c \in Range(pivot_df[1].columns) : pivot_df[1].mark[<<OldestDate, c>>] = ""

\* C14 witness: a view of two dates with a marked cell in the newer row and an
\* oldest row holding both a cell with no record and a recorded zero.
C14_Witness ==
    /\ Built
    /\ Len(pivot_df[1].index) = 2
    /\ \E c \in Range(pivot_df[1].columns) : pivot_df[1].mark[<<LatestDate, c>>] # ""
    /\ \E c \in Range(pivot_df[1].columns) : Recorded(OldestDate, c) = <<>>
    /\ \E c \in Range(pivot_df[1].columns) : Recorded(OldestDate, c) = <<0>>

\* C15 (as claimed): in a row with a chronological predecessor a cell is marked
\* exactly when its value differs from the same column's value in the preceding
\* row; no record against a number (0 included) is a difference, no record
\* against no record is not.
C15_MarkedIffDiffers ==
    Built =>
        \A d \in Range(pivot_df[1].index), c \in Range(pivot_df[1].columns) :
            \A p \in Earlier(d) :
                (\A e \in Earlier(d) : ~ DateBefore(p, e)) =>
                    ((pivot_df[1].mark[<<d, c>>] # "") <=> (Recorded(d, c) # Recorded(p, c)))

\* C16: the columns after the Column Ordering Policy are a permutation of the
\* columns before it: as many, the same ones, none twice.
C16_ColumnsArePermutation ==
    Built =>
        /\ Len(pivot_df[1].columns) = Len(pivot_df[1].before)
        /\ Range(pivot_df[1].columns) = Range(pivot_df[1].before)
        /\ \A i, j \in 1..Len(pivot_df[1].columns) :
              pivot_df[1].columns[i] = pivot_df[1].columns[j] => i = j

\* C16 witness: lite reordered three columns, one of them with no record in the
\* most recent row.
C16_Witness ==
    /\ Built
    /\ app = "lite"
    /\ Len(pivot_df[1].before) = 3
    /\ pivot_df[1].columns # pivot_df[1].before
    /\ \E c \in Range(pivot_df[1].before) : Recorded(LatestDate, c) = <<>>

\* the bucket of column c by the records of the most recent date: 1 positive,
\* 2 negative, 3 zero, 4 missing
Rank(c) ==
    LET x == Recorded(LatestDate, c)
    IN  IF x = <<>> THEN 4 ELSE IF x[1] > 0 THEN 1 ELSE IF x[1] < 0 THEN 2 ELSE 3

PlaceOf(cols, c) == CHOOSE i \in 1..Len(cols) : cols[i] = c

\* C17: after lite's reordering the columns positive in the most recent row
\* come first, then the negative, the zero and the missing ones, and two columns
\* of one bucket keep the order they had before.
C17_BucketsInOrder ==
    (Built /\ app = "lite") =>
        \A i, j \in 1..Len(pivot_df[1].columns) :
            i < j =>
                LET ci == pivot_df[1].columns[i]
                    cj == pivot_df[1].columns[j]
                IN  /\ Rank(ci) <= Rank(cj)
                    /\ Rank(ci) = Rank(cj) =>
                          PlaceOf(pivot_df[1].before, ci) < PlaceOf(pivot_df[1].before, cj)

\* C17 witness: lite moved a column in front of two columns of one bucket.
C17_Witness ==
    /\ Built
    /\ app = "lite"
    /\ pivot_df[1].columns # pivot_df[1].before
    /\ \E i, j \in 1..Len(pivot_df[1].columns) :
          i < j /\ Rank(pivot_df[1].columns[i]) = Rank(pivot_df[1].columns[j])

\* C18 (as claimed): a cell with no record shows a sentinel that differs from
\* what a recorded score of zero shows.
C18_MissingIsNotZero ==
    Built =>
        \A k, z \in Range(pivot_df[1].index) \X Range(pivot_df[1].columns) :
            (Recorded(k[1], k[2]) = <<>> /\ Recorded(z[1], z[2]) = <<0>>) =>
                pivot_df[1].shown[k] # pivot_df[1].shown[z]

-----------------------------------------------------------------------------
(* Claims about the batch run (SpecBatch) *)

\* the files of the batch that give no records
Failing == {i \in 1..Len(uploaded_files) :
               \A now \in Today : analyze_pdf_trend_strength(app, uploaded_files[i], now) = <<>>}

\* the keys the records of file i have
KeysOfFile(i) ==
    UNION {Keys(analyze_pdf_trend_strength(app, uploaded_files[i], now)) : now \in Today}

\* the keys of the store the batch merged into
MergedKeys ==
    IF app = "desktop"
    THEN (IF pivot_file = <<>> THEN {} ELSE DOMAIN pivot_file[1].cell)
    ELSE Keys(historical_data)

C24_DeleteRemovesOrRewritesFile ==
    (last_op = "delete" /\ faults = 0) =>
        IF historical_data = <<>> THEN csv_file = <<>>
        ELSE csv_file = <<ToCsv(historical_data)>>

\* C24 witness: a delete removed the last records of a store that had a file.
C24_Witness ==
    /\ last_op = "delete"
    /\ faults = 0
    /\ prev_data # <<>>
    /\ historical_data = <<>>
    /\ csv_file = <<>>

\* the number a shown cell stands for, as a fraction of tenths
ShownValue(x) == IF app = "desktop" THEN x ELSE Frac(Float(x), 1)

\* C25 (as claimed): a cell whose key has two records with different scores
\* shows the score of the first of them, not their mean and not the last.
C25_FirstRecordWins ==
    Built =>
        \A d \in Range(pivot_df[1].index), c \in Range(pivot_df[1].columns) :
            LET here == CellRecords(ViewInput, d, c)
            IN  (Len(here) >= 2 /\ ScoreValue(here[1].strength) # ScoreValue(here[2].strength)) =>
                    ShownValue(pivot_df[1].shown[<<d, c>>]) = Frac(ScoreValue(here[1].strength), 1)

\* C26: an analysis whose documents gave no record leaves the in-memory store
\* and the store file as they were, when file access does not raise.
C26_NoRecordsNoChange ==
    [][(last_op' = "analyze" /\ all_trend_data' = <<>> /\ faults' = 0) =>
          (historical_data' = historical_data /\ csv_file' = csv_file)]_vars

\* C26 witness: a document without records was analysed over a store that has
\* records and a file.
C26_Witness ==
    /\ last_op = "analyze"
    /\ all_trend_data = <<>>
    /\ faults = 0
    /\ historical_data # <<>>
    /\ csv_file # <<>>
    /\ uploaded_files # <<>>

-----------------------------------------------------------------------------
(* Claims about the order of two merges (SpecMerge) *)

\* C27 (as claimed): for two record lists without a common key, saving A then
\* B and saving B then A give the same records (web) or the same pivot
\* (desktop), also when A and B share a date and name different instruments.
C27_MergeCommutesOnDisjointKeys ==
    last_op = "merge" =>
        IF app = "desktop" THEN pivot_file = prev_data
        ELSE Range(historical_data) = Range(prev_data)

-----------------------------------------------------------------------------
(* Claims about the desktop window (SpecGui, SpecGuiLive) *)

\* a run is under way: its worker is inside run_extraction, or its callback
\* has not run yet
RunUnderWay == threads # <<>> \/ after_queue # <<>>

\* C28: at most one run is under way at a time, and while one is, the start
\* button is disabled.
C28_OneRunAtATime ==
    /\ Len(threads) + Len(after_queue) <= 1
    /\ RunUnderWay => extract_button = "disabled"

\* C28 witness: a second run is under way after the first one ended.
C28_Witness ==
    /\ started = 2
    /\ Len(threads) = 1
    /\ extract_button = "disabled"

\* C29: every run that is under way leads to a state with no run under way,
\* the progress bar stopped and the start button enabled.
C29_RunEnds ==
    RunUnderWay ~> (~ RunUnderWay /\ ~ progress /\ extract_button = "normal")

\* C29 witness: a run whose worker raised has ended with the bar stopped and
\* the button enabled.
C29_Witness ==
    /\ last_op = "error"
    /\ ~ RunUnderWay
    /\ ~ progress
    /\ extract_button = "normal"
    /\ started >= 1

\* the keys and scores of the records in the store file
FileValues == {<<Key(r), ScoreValue(r.strength)>> : r \in FileRecords}

\* C30: a render of the page with no button pressed, which builds the history
\* view from the store with incremental=False, leaves the records in memory and
\* the store file as they were; the first render of a session, which loads the
\* store from the file, leaves the keys and scores in the file as they were.
\* Stated for behaviours in which file access does not raise.
C30_RefreshChangesNothing ==
    [][/\ (last_op' = "rerun" /\ faults' = 0) =>
              (historical_data' = historical_data /\ csv_file' = csv_file)
       /\ (last_op' = "open" /\ faults' = 0) =>
              (FileValues' = FileValues /\ (csv_file = <<>> <=> csv_file' = <<>>))]_vars

\* C30 witness: the page was rendered again, after the render that emptied the
\* uploader, over a store that has records and a file.
C30_Witness ==
    /\ last_op = "rerun"
    /\ reingest = FALSE
    /\ faults = 0
    /\ uploaded_files = <<>>
    /\ historical_data # <<>>
    /\ csv_file = <<ToCsv(historical_data)>>

-----------------------------------------------------------------------------
(* Claims about a crash during the write of the store file (SpecCrash) *)

\* C23 (as claimed): after the process ended during a write over an existing
\* store file, the file is the complete version it was before that write.
C23_CrashKeepsPreviousFile ==
    (last_op = "crash_in_write" /\ prev_data # <<>>) => csv_file = prev_data

-----------------------------------------------------------------------------
(* Claims about the Record Extractor and the Date Resolver (SpecExtract) *)

Emitted == Range(trend_data)

\* the pairs of the document a record can come from
SourcePairs(doc) ==
    Range(doc.matches) \cup UNION {Range(doc.cats[c]) : c \in Range(categories)}

\* C6 (as claimed): every record the Extractor emits, on the primary or the
\* fallback path, has a score in [-10, 10] and a non-empty name made only of
\* the characters of the primary pattern's class.
C6_EmittedRecordsValid ==
    pc = "done" =>
        \A r \in Emitted :
            /\ InRange(ScoreValue(r.strength))
            /\ r.variety # <<>>
            /\ \A i \in 1..Len(r.variety) : r.variety[i] \in PrimaryClass

\* C7 (as claimed): no emitted record, on either path, has a name that holds a
\* denylisted token or is purely numeric.
C7_NoDenylistedName ==
    pc = "done" =>
        \A r \in Emitted :
            /\ \A k \in 1..Len(invalid_keywords) : ~ Contains(invalid_keywords[k], r.variety)
            /\ ~ IsDigit(r.variety)

\* the records emitted for a primary match: its cleaned name with the score the
\* program stores for its numeric string
RecordsFor(m) ==
    {j \in 1..Len(trend_data) :
        /\ trend_data[j].variety = CleanName(m.name)
        /\ trend_data[j].strength = StoredStrength(app, m.num)}

MatchOk(m) == NameAccepted(CleanName(m.name)) /\ InRange(Float(m.num))

\* C8: within one extraction pass, a primary-pattern match that passes the
\* filters has exactly one record, however many times the same instrument and
\* numeric string occur in the text.
C8_RepeatsGiveOneRecord ==
    (pc = "done" /\ pdf.text_ok) =>
        \A i \in 1..Len(pdf.matches) :
            MatchOk(pdf.matches[i]) => Cardinality(RecordsFor(pdf.matches[i])) = 1

\* C8 witness: a text with the same accepted pair twice gave one record.
C8_Witness ==
    /\ pc = "done" /\ pdf.text_ok
    /\ Len(pdf.matches) >= 2
    /\ pdf.matches[1] = pdf.matches[2]
    /\ MatchOk(pdf.matches[1])
    /\ Len(trend_data) = 1

\* C9 (as claimed): the score of every emitted record is the decimal value of
\* a numeric string matched for its instrument; 3.5 stays 3.5.
C9_ScoreIsMatchedValue ==
    pc = "done" =>
        \A r \in Emitted :
            \E m \in SourcePairs(pdf) :
                /\ CleanName(m.name) = r.variety
                /\ ScoreValue(r.strength) = Float(m.num)

\* C10 (as claimed): the date attached to extracted records is always a valid
\* calendar date.
C10_DateIsCalendarDate ==
    pc = "done" => \A r \in Emitted : StrptimeOk(r.date)

\* the distinct numeric strings matched for name v in matches that pass the filters
StringsFor(v) ==
    {pdf.matches[i].num : i \in {k \in 1..Len(pdf.matches) :
        MatchOk(pdf.matches[k]) /\ CleanName(pdf.matches[k].name) = v}}

\* C21 (as claimed): within one extraction pass an instrument matched with
\* different numeric strings ("3" and "3.0", "3" and "3.5") has one record for
\* each of the strings.
C21_DifferentStringsSurvive ==
    (pc = "done" /\ pdf.text_ok) =>
        \A i \in 1..Len(pdf.matches) :
            LET v == CleanName(pdf.matches[i].name)
            IN  Cardinality({j \in 1..Len(trend_data) : trend_data[j].variety = v})
                    = Cardinality(StringsFor(v))

\* the body patterns whose first match is a valid calendar date
ValidInBody == {p \in DatePatterns : pdf.body[p] # <<>> /\ StrptimeOk(DateOf(pdf.body[p]))}

\* the file name has an 8-digit run that is not a calendar date
FileNameRunInvalid == pdf.filename.run # <<>> /\ ~ StrptimeOk(DateOf(pdf.filename.run))

\* C22 (as claimed): when the 8-digit run of the file name is not a calendar
\* date the records carry a valid date of the body text if it has one, and the
\* current date only when no candidate of the body is valid.
C22_InvalidFileNameDateFallsThrough ==
    (pc = "done" /\ FileNameRunInvalid) =>
        \A r \in Emitted :
            IF ValidInBody # {}
            THEN \E p \in ValidInBody : r.date = DateOf(pdf.body[p])
            ELSE r.date \in Today

====
